---- MODULE Spec2Model ----
(***************************************************************************)
(* Model of the rubikamp backend: the JSON file stores of the User and     *)
(* Product models, the auth middleware (verifyToken, requireAdmin) and the *)
(* users / products routes.                                                *)
(*                                                                         *)
(* A request is a process.  Its steps are the points where the code        *)
(* touches a file: the effect of fs.readFile, the write of the empty       *)
(* document after ENOENT, the effect of fs.writeFile.  The synchronous     *)
(* JavaScript between two awaits runs with the step that precedes it.      *)
(* Every readFile and writeFile is taken as one atomic file operation and  *)
(* writeFile is taken to succeed; the only storage failure modelled is a   *)
(* file whose text JSON.parse rejects.                                     *)
(***************************************************************************)
EXTENDS Integers, Sequences, FiniteSets, TLC

VARIABLES usersFile, productsFile, clock, req

vars == <<usersFile, productsFile, clock, req>>

(***************************************************************************)
(* Bounds of the model.                                                    *)
(***************************************************************************)
\* the first reading of Date.now() in the model, and how often it advances
Epoch == 9
MaxTicks == 1
MaxProducts == 3
MaxUsers == 2

MaxClock == Epoch + MaxTicks

(***************************************************************************)
(* JavaScript values.  t is the type, n the number (or the epoch reading   *)
(* of a Date, or 0/1 for a boolean), s the string.                         *)
(***************************************************************************)
Undef == [t |-> "undefined", n |-> 0, s |-> ""]
Num(k) == [t |-> "number", n |-> k, s |-> ""]
Str(x) == [t |-> "string", n |-> 0, s |-> x]
Bool(b) == [t |-> "boolean", n |-> IF b THEN 1 ELSE 0, s |-> ""]
DateV(c) == [t |-> "date", n |-> c, s |-> ""]

\* JavaScript truthiness: undefined, 0, "" and false are falsy
Truthy(v) ==
  CASE v.t = "undefined" -> FALSE
    [] v.t = "number" -> v.n # 0
    [] v.t = "string" -> v.s # ""
    [] v.t = "boolean" -> v.n = 1
    [] OTHER -> TRUE

\* a || b
OrElse(a, b) == IF Truthy(a) THEN a ELSE b

\* a default parameter value (x = d) applies when the argument is undefined
DefaultTo(v, d) == IF v.t = "undefined" THEN d ELSE v

Digit(d) == <<"0", "1", "2", "3", "4", "5", "6", "7", "8", "9">>[d + 1]

RECURSIVE NumToString(_)
\* Number.prototype.toString() of a non-negative integer
NumToString(k) ==
  IF k < 10 THEN Digit(k) ELSE NumToString(k \div 10) \o Digit(k % 10)

\* Date.prototype.toJSON(): the ISO text of the instant
ToISOString(c) == "T" \o NumToString(c) \o "Z"

\* JSON.stringify followed by JSON.parse of one value: a Date comes back as
\* its ISO string; an undefined property is dropped and reads as undefined
JsonValue(v) == IF v.t = "date" THEN Str(ToISOString(v.n)) ELSE v

JsonRecord(rec) == [f \in DOMAIN rec |-> JsonValue(rec[f])]

JsonList(list) == [i \in 1..Len(list) |-> JsonRecord(list[i])]

(***************************************************************************)
(* A file is absent (ENOENT), holds text that is not JSON (corrupt), or    *)
(* holds a document (json) whose one array is kept in list.                *)
(***************************************************************************)
Absent == [st |-> "ENOENT", list |-> <<>>]
Corrupt == [st |-> "corrupt", list |-> <<>>]
Document(list) == [st |-> "json", list |-> list]

\* Array.prototype.find: the first element that satisfies the test
RECURSIVE FindFirst(_, _, _)
FindFirst(list, field, value) ==
  IF list = <<>> THEN Undef
  ELSE IF Head(list)[field] = value THEN Head(list)
  ELSE FindFirst(Tail(list), field, value)

\* Array.prototype.filter with the test  x[field] === value
RECURSIVE FilterEq(_, _, _)
FilterEq(list, field, value) ==
  IF list = <<>> THEN <<>>
  ELSE IF Head(list)[field] = value
       THEN <<Head(list)>> \o FilterEq(Tail(list), field, value)
       ELSE FilterEq(Tail(list), field, value)

\* Array.prototype.filter with the test  x[field] !== value
RECURSIVE FilterNe(_, _, _)
FilterNe(list, field, value) ==
  IF list = <<>> THEN <<>>
  ELSE IF Head(list)[field] # value
       THEN <<Head(list)>> \o FilterNe(Tail(list), field, value)
       ELSE FilterNe(Tail(list), field, value)

\* index of the first element with x[field] === value, 0 when there is none
FirstIndex(list, field, value) ==
  IF \E i \in 1..Len(list) : list[i][field] = value
  THEN CHOOSE i \in 1..Len(list) :
         /\ list[i][field] = value
         /\ \A j \in 1..(i - 1) : list[j][field] # value
  ELSE 0

(***************************************************************************)
(* models/User.js                                                          *)
(***************************************************************************)
\* new User(name, email, password, isAdmin = false) at clock reading now
User(name, email, password, isAdmin, now) ==
  [id |-> Str(NumToString(now)),
   name |-> name,
   email |-> email,
   password |-> password,
   isAdmin |-> DefaultTo(isAdmin, Bool(FALSE)),
   createdAt |-> DateV(now)]

UserFindByEmail(users, email) == FindFirst(users, "email", email)

UserFindById(users, id) == FindFirst(users, "id", id)

\* a projection that passes the stored record on as it is
PublicUserWhole(user) == user

\* the projection of User.getAll (and of GET /api/users/:id)
PublicUser(user) ==
  [id |-> user.id,
   name |-> user.name,
   email |-> user.email,
   isAdmin |-> user.isAdmin,
   createdAt |-> user.createdAt]

UserGetAll(users) == [i \in 1..Len(users) |-> PublicUser(users[i])]

\* User.create between its read and its write: the new record and the array
\* that is written back
UserCreate(users, a, now) ==
  LET user == User(a.name, a.email, a.password,
                   DefaultTo(a.isAdmin, Bool(FALSE)), now)
  IN [threw |-> FALSE, list |-> Append(users, user), result |-> user]

(***************************************************************************)
(* models/Product.js                                                       *)
(***************************************************************************)
\* new Product(name, description, price, category, stock = 0)
Product(name, description, price, category, stock, now) ==
  [id |-> Str(NumToString(now)),
   name |-> name,
   description |-> description,
   price |-> price,
   category |-> category,
   stock |-> DefaultTo(stock, Num(0)),
   createdAt |-> DateV(now)]

ProductFindById(products, id) == FindFirst(products, "id", id)

\* a findByCategory that forgets its filter
ProductFindByCategoryAll(products, category) == products

ProductFindByCategory(products, category) ==
  FilterEq(products, "category", category)

ProductGetAll(products) == products

ProductCreate(products, a, now) ==
  LET product == Product(a.name, a.description, a.price, a.category,
                         DefaultTo(a.stock, Num(0)), now)
  IN [threw |-> FALSE, list |-> Append(products, product), result |-> product]

\* a delete whose filter keeps the wrong side
ProductDeleteKeep(products, id) ==
  [threw |-> FALSE, list |-> FilterEq(products, "id", id), result |-> Undef]

ProductDelete(products, id) ==
  [threw |-> FALSE, list |-> FilterNe(products, "id", id), result |-> Undef]

\* an update that takes every falsy value for an absent one
PatchFalsy(product, a) ==
  [product EXCEPT
     !.name = OrElse(a.name, product.name),
     !.description = OrElse(a.description, product.description),
     !.price = OrElse(a.price, product.price),
     !.category = OrElse(a.category, product.category),
     !.stock = OrElse(a.stock, product.stock)]

\* the five assignments of Product.update on the record found
Patch(product, a) ==
  [product EXCEPT
     !.name = OrElse(a.name, product.name),
     !.description = OrElse(a.description, product.description),
     !.price = IF a.price # Undef THEN a.price ELSE product.price,
     !.category = OrElse(a.category, product.category),
     !.stock = IF a.stock # Undef THEN a.stock ELSE product.stock]

\* Product.update between its read and its write; the record is changed in
\* place in the array, `threw` is the Error('Product not found')
ProductUpdate(products, id, a) ==
  LET i == FirstIndex(products, "id", id)
  IN IF i = 0
     THEN [threw |-> TRUE, list |-> products, result |-> Undef]
     ELSE [threw |-> FALSE,
           list |-> [products EXCEPT ![i] = Patch(products[i], a)],
           result |-> Patch(products[i], a)]

(***************************************************************************)
(* middleware/auth.js                                                      *)
(***************************************************************************)
\* the token that jwt.sign({ userId }, JWT_SECRET) issues for a user id
SignedToken(userId) == "jwt." \o userId

\* user ids a token of the model can embed
TokenUserIds == {NumToString(c) : c \in (Epoch - 2)..MaxClock}

\* jwt.verify(token, JWT_SECRET): the payload, or a throw for any token the
\* secret did not sign
JwtVerify(token) ==
  IF \E u \in TokenUserIds : token = SignedToken(u)
  THEN [threw |-> FALSE,
        userId |-> Str(CHOOSE u \in TokenUserIds : token = SignedToken(u))]
  ELSE [threw |-> TRUE, userId |-> Undef]

\* the first part of the header (the scheme) taken for the token
BearerTokenFirst(parts) == IF Len(parts) >= 1 THEN Str(parts[1]) ELSE Undef

\* req.headers.authorization?.split(' ')[1], the header given as its parts
\* between single spaces (<<>> when the header is missing)
BearerToken(parts) == IF Len(parts) >= 2 THEN Str(parts[2]) ELSE Undef

\* the test of requireAdmin on the record it loaded
IsAdminUser(user) == user # Undef /\ Truthy(user.isAdmin)

(***************************************************************************)
(* Requests.  route is the Express route (or, for a direct call of a       *)
(* model function by code outside the routes, the name of that function);  *)
(* op is the model function in progress and stage tells whether it runs    *)
(* for requireAdmin or for the route handler.                              *)
(***************************************************************************)
Reqs == {1, 2}

NoRes == [status |-> 0, message |-> "", error |-> "", payload |-> <<>>]

NoBody ==
  [name |-> Undef, description |-> Undef, price |-> Undef,
   category |-> Undef, stock |-> Undef]

IdleReq ==
  [route |-> "idle", pc |-> "idle", stage |-> "", op |-> "",
   header |-> <<>>, userId |-> Undef, id |-> "", category |-> "",
   body |-> NoBody, args |-> NoBody, data |-> <<>>, user |-> Undef,
   result |-> Undef, res |-> NoRes, nextV |-> 0, nextA |-> 0, ran |-> FALSE]

AdminRoutes ==
  {"POST /api/products", "PUT /api/products/:id", "DELETE /api/products/:id",
   "GET /api/users", "GET /api/users/:id"}

PublicRoutes ==
  {"GET /api/products", "GET /api/products/:id",
   "GET /api/products/category/:category"}

UserCalls == {"User.create", "User.findById", "User.findByEmail", "User.getAll"}

ProductCalls ==
  {"Product.create", "Product.findById", "Product.findByCategory",
   "Product.getAll", "Product.update", "Product.delete"}

\* res.status(status).json({ message, error, ...payload }) ends the request
Respond(q, status, message, error, payload) ==
  [q EXCEPT !.pc = "done",
            !.res = [status |-> status, message |-> message,
                     error |-> error, payload |-> payload]]

\* the message of the catch block of each route
CatchMessage(route) ==
  CASE route = "GET /api/users" -> "Error fetching users"
    [] route = "GET /api/users/:id" -> "Error fetching user"
    [] route = "GET /api/products" -> "Error fetching products"
    [] route = "GET /api/products/:id" -> "Error fetching product"
    [] route = "GET /api/products/category/:category"
         -> "Error fetching products by category"
    [] route = "POST /api/products" -> "Error creating product"
    [] route = "PUT /api/products/:id" -> "Error updating product"
    [] route = "DELETE /api/products/:id" -> "Error deleting product"
    [] OTHER -> ""

\* an exception thrown inside a model function: requireAdmin and every route
\* catch it and answer 500 with error.message; a direct call is rejected
Throw(q, error) ==
  IF q.stage = "requireAdmin"
  THEN Respond(q, 500, "Error checking admin status", error, <<>>)
  ELSE IF q.route \in AdminRoutes \cup PublicRoutes
  THEN Respond(q, 500, CatchMessage(q.route), error, <<>>)
  ELSE Respond(q, 0, "", error, <<>>)

\* the message of the SyntaxError of JSON.parse
ParseError == "Unexpected token"

\* a model function called directly returns its value to its caller
Return(q, result, payload) ==
  [Respond(q, 0, "", "", payload) EXCEPT !.result = result]

(***************************************************************************)
(* What runs when readUsersFile has returned `users` to the function that  *)
(* awaited it, up to the next await or the response.                       *)
(***************************************************************************)
\* requireAdmin that tests only that the record exists
RequireAdminNoFlag(q, users) ==
  LET user == UserFindById(users, q.userId)
  IN IF user = Undef
     THEN [Respond(q, 403, "Admin access required", "", <<>>)
             EXCEPT !.user = user, !.data = users]
     ELSE [q EXCEPT !.user = user, !.data = users, !.nextA = @ + 1,
                    !.pc = "handler", !.stage = "handler", !.op = ""]

\* requireAdmin after  await User.findById(req.userId)
RequireAdminDecide(q, users) ==
  LET user == UserFindById(users, q.userId)
  IN IF ~IsAdminUser(user)
     THEN [Respond(q, 403, "Admin access required", "", <<>>)
             EXCEPT !.user = user, !.data = users]
     ELSE [q EXCEPT !.user = user, !.data = users, !.nextA = @ + 1,
                    !.pc = "handler", !.stage = "handler", !.op = ""]

\* router.get('/:id') of the users routes after  await User.findById
GetUserById(q, users) ==
  LET user == UserFindById(users, Str(q.id))
  IN IF user = Undef
     THEN Respond(q, 404, "User not found", "", <<>>)
     ELSE Respond(q, 200, "", "", <<JsonRecord(PublicUser(user))>>)

AfterUsersRead(q, users, now) ==
  CASE q.stage = "requireAdmin" -> RequireAdminDecide(q, users)
    [] q.stage # "requireAdmin" /\ q.route = "GET /api/users" ->
         Respond([q EXCEPT !.data = users], 200, "", "",
                 JsonList(UserGetAll(users)))
    [] q.stage # "requireAdmin" /\ q.route = "GET /api/users/:id" ->
         GetUserById([q EXCEPT !.data = users], users)
    [] q.stage # "requireAdmin" /\ q.route = "User.findById" ->
         Return(q, UserFindById(users, Str(q.id)), <<>>)
    [] q.stage # "requireAdmin" /\ q.route = "User.findByEmail" ->
         Return(q, UserFindByEmail(users, q.args.email), <<>>)
    [] q.stage # "requireAdmin" /\ q.route = "User.getAll" ->
         Return([q EXCEPT !.data = users], Undef, UserGetAll(users))
    [] q.stage # "requireAdmin" /\ q.route = "User.create" ->
         LET c == UserCreate(users, q.args, now)
         IN [q EXCEPT !.data = c.list, !.result = c.result, !.pc = "writeUsers"]

(***************************************************************************)
(* What runs when readProductsFile has returned `products`.                *)
(***************************************************************************)
\* the route handlers after  await Product.findById(req.params.id)
AfterFindById(q, products) ==
  LET product == ProductFindById(products, Str(q.id))
  IN CASE q.route = "Product.findById" -> Return(q, product, <<>>)
       [] q.route # "Product.findById" /\ product = Undef ->
            Respond(q, 404, "Product not found", "", <<>>)
       [] q.route = "GET /api/products/:id" /\ product # Undef ->
            Respond(q, 200, "", "", <<JsonRecord(product)>>)
       [] q.route = "PUT /api/products/:id" /\ product # Undef ->
            [q EXCEPT !.op = "Product.update", !.pc = "readProducts"]
       [] q.route = "DELETE /api/products/:id" /\ product # Undef ->
            [q EXCEPT !.op = "Product.delete", !.pc = "readProducts"]

\* a mutating function has computed the array to write and awaits the write
AwaitWrite(q, c) ==
  IF c.threw
  THEN Throw(q, "Product not found")
  ELSE [q EXCEPT !.data = c.list, !.result = c.result, !.pc = "writeProducts"]

AfterProductsRead(q, products, now) ==
  CASE q.op = "Product.findById" -> AfterFindById(q, products)
    [] q.op = "Product.findByCategory" ->
         LET found == ProductFindByCategory(products, Str(q.category))
         IN IF q.route = "Product.findByCategory"
            THEN Return([q EXCEPT !.data = products], Undef, found)
            ELSE Respond([q EXCEPT !.data = products], 200, "", "",
                         JsonList(found))
    [] q.op = "Product.getAll" ->
         IF q.route = "Product.getAll"
         THEN Return([q EXCEPT !.data = products], Undef,
                     ProductGetAll(products))
         ELSE Respond([q EXCEPT !.data = products], 200, "", "",
                      JsonList(ProductGetAll(products)))
    [] q.op = "Product.create" ->
         AwaitWrite(q, ProductCreate(products, q.args, now))
    [] q.op = "Product.update" ->
         AwaitWrite(q, ProductUpdate(products, Str(q.id), q.args))
    [] q.op = "Product.delete" ->
         AwaitWrite(q, ProductDelete(products, Str(q.id)))

\* what runs when writeProductsFile has returned
AfterProductsWrite(q) ==
  CASE q.route = "POST /api/products" ->
         Respond(q, 201, "Product created successfully", "",
                 <<JsonRecord(q.result)>>)
    [] q.route = "PUT /api/products/:id" ->
         Respond(q, 200, "Product updated successfully", "",
                 <<JsonRecord(q.result)>>)
    [] q.route = "DELETE /api/products/:id" ->
         Respond(q, 200, "Product deleted successfully", "", <<>>)
    [] OTHER -> Return(q, q.result, <<>>)

(***************************************************************************)
(* Actions                                                                 *)
(***************************************************************************)
\* the store `file` has room for one more record (a bound of the model)
Grows(file, max) ==
  file.st = "json" => Len(file.list) < max

\* a request (or a direct call) with the inputs i starts in slot r
Arrive(r, i) ==
  /\ req[r].pc = "idle"
  /\ i.route \in {"POST /api/products", "Product.create"}
       => Grows(productsFile, MaxProducts)
  /\ i.route = "User.create" => Grows(usersFile, MaxUsers)
  /\ req' = [req EXCEPT ![r] =
       [IdleReq EXCEPT !.route = i.route, !.header = i.header, !.id = i.id,
                       !.category = i.category, !.body = i.body,
                       !.pc = IF i.route \in AdminRoutes
                              THEN "verifyToken" ELSE "handler",
                       !.stage = IF i.route \in AdminRoutes
                                 THEN "verifyToken" ELSE "handler"]]
  /\ UNCHANGED <<usersFile, productsFile, clock>>

\* verifyToken; its next() enters requireAdmin, which runs up to its await
VerifyToken(r) ==
  LET q == req[r]
      token == BearerToken(q.header)
      decoded == JwtVerify(token.s)
  IN /\ q.pc = "verifyToken"
     /\ req' = [req EXCEPT ![r] =
          IF ~Truthy(token)
          THEN Respond(q, 401, "No token provided", "", <<>>)
          ELSE IF decoded.threw
          THEN Respond(q, 401, "Invalid token", "", <<>>)
          ELSE [q EXCEPT !.userId = decoded.userId, !.nextV = @ + 1,
                         !.stage = "requireAdmin", !.op = "User.findById",
                         !.pc = "readUsers"]]
     /\ UNCHANGED <<usersFile, productsFile, clock>>

\* the route handler from its entry to its first await
Handler(r) ==
  LET q == req[r]
      b == q.body
      h == [q EXCEPT !.ran = TRUE, !.stage = "handler"]
  IN /\ q.pc = "handler"
     /\ req' = [req EXCEPT ![r] =
          CASE q.route = "POST /api/products" ->
                 IF \/ ~Truthy(b.name) \/ ~Truthy(b.description)
                    \/ b.price = Undef \/ ~Truthy(b.category)
                 THEN Respond(h, 400,
                        "Name, description, price, and category are required",
                        "", <<>>)
                 ELSE [h EXCEPT !.op = "Product.create",
                                !.args = [b EXCEPT
                                            !.stock = OrElse(b.stock, Num(0))],
                                !.pc = "readProducts"]
            [] q.route \in {"PUT /api/products/:id",
                            "DELETE /api/products/:id",
                            "GET /api/products/:id"} ->
                 [h EXCEPT !.op = "Product.findById", !.args = b,
                           !.pc = "readProducts"]
            [] q.route = "GET /api/products" ->
                 [h EXCEPT !.op = "Product.getAll", !.pc = "readProducts"]
            [] q.route = "GET /api/products/category/:category" ->
                 [h EXCEPT !.op = "Product.findByCategory",
                           !.pc = "readProducts"]
            [] q.route = "GET /api/users" ->
                 [h EXCEPT !.op = "User.getAll", !.pc = "readUsers"]
            [] q.route = "GET /api/users/:id" ->
                 [h EXCEPT !.op = "User.findById", !.pc = "readUsers"]
            [] q.route \in UserCalls ->
                 [h EXCEPT !.op = q.route, !.args = b, !.pc = "readUsers"]
            [] q.route \in ProductCalls ->
                 [h EXCEPT !.op = q.route, !.args = b, !.pc = "readProducts"]]
     /\ UNCHANGED <<usersFile, productsFile, clock>>

\* readUsersFile: fs.readFile and JSON.parse
ReadUsersFile(r) ==
  LET q == req[r]
  IN /\ q.pc = "readUsers"
     /\ (q.op = "User.create" /\ usersFile.st = "json")
          => Len(usersFile.list) < MaxUsers
     /\ req' = [req EXCEPT ![r] =
          CASE usersFile.st = "json" -> AfterUsersRead(q, usersFile.list, clock)
            [] usersFile.st = "ENOENT" -> [q EXCEPT !.pc = "initUsers"]
            [] usersFile.st = "corrupt" -> Throw(q, ParseError)]
     /\ UNCHANGED <<usersFile, productsFile, clock>>

\* readUsersFile after ENOENT: writes { users: [] } and returns it
InitUsersFile(r) ==
  LET q == req[r]
  IN /\ q.pc = "initUsers"
     /\ usersFile' = Document(<<>>)
     /\ req' = [req EXCEPT ![r] = AfterUsersRead(q, <<>>, clock)]
     /\ UNCHANGED <<productsFile, clock>>

\* writeUsersFile, and the return of User.create
WriteUsersFile(r) ==
  LET q == req[r]
  IN /\ q.pc = "writeUsers"
     /\ usersFile' = Document(JsonList(q.data))
     /\ req' = [req EXCEPT ![r] = Return(q, q.result, <<>>)]
     /\ UNCHANGED <<productsFile, clock>>

\* readProductsFile: fs.readFile and JSON.parse
ReadProductsFile(r) ==
  LET q == req[r]
  IN /\ q.pc = "readProducts"
     /\ (q.op = "Product.create" /\ productsFile.st = "json")
          => Len(productsFile.list) < MaxProducts
     /\ req' = [req EXCEPT ![r] =
          CASE productsFile.st = "json" ->
                 AfterProductsRead(q, productsFile.list, clock)
            [] productsFile.st = "ENOENT" -> [q EXCEPT !.pc = "initProducts"]
            [] productsFile.st = "corrupt" -> Throw(q, ParseError)]
     /\ UNCHANGED <<usersFile, productsFile, clock>>

\* readProductsFile after ENOENT: writes { products: [] } and returns it
InitProductsFile(r) ==
  LET q == req[r]
  IN /\ q.pc = "initProducts"
     /\ productsFile' = Document(<<>>)
     /\ req' = [req EXCEPT ![r] = AfterProductsRead(q, <<>>, clock)]
     /\ UNCHANGED <<usersFile, clock>>

\* writeProductsFile, and what follows it in the function and the handler
WriteProductsFile(r) ==
  LET q == req[r]
  IN /\ q.pc = "writeProducts"
     /\ productsFile' = Document(JsonList(q.data))
     /\ req' = [req EXCEPT ![r] = AfterProductsWrite(q)]
     /\ UNCHANGED <<usersFile, clock>>

\* the response has been sent (the call has returned): the slot is free
Finish(r) ==
  /\ req[r].pc = "done"
  /\ req' = [req EXCEPT ![r] = IdleReq]
  /\ UNCHANGED <<usersFile, productsFile, clock>>

\* Date.now() advances
Tick ==
  /\ clock < MaxClock
  /\ clock' = clock + 1
  /\ UNCHANGED <<usersFile, productsFile, req>>

(***************************************************************************)
(* Inputs                                                                  *)
(***************************************************************************)
Input(route, header, id, category, body) ==
  [route |-> route, header |-> header, id |-> id, category |-> category,
   body |-> body]

\* the ids a record created in the model can have
ParamIds == {NumToString(c) : c \in Epoch..MaxClock}

Bearer(userId) == <<"Bearer", SignedToken(userId)>>

\* headers that carry no token, an empty token, or a token of another signer
BadHeaders == {<<>>, <<"Bearer">>, <<"Bearer", "">>, <<"Bearer", "forged">>}

ProductBody(name, description, price, category, stock) ==
  [name |-> name, description |-> description, price |-> price,
   category |-> category, stock |-> stock]

UserArgs(name, email, password, isAdmin) ==
  [name |-> name, email |-> email, password |-> password,
   isAdmin |-> isAdmin]

\* two accounts signed up before the first reading of the model
AdminId == NumToString(Epoch - 2)
PlainId == NumToString(Epoch - 1)

SeedUsers ==
  LET admin == UserCreate(<<>>, UserArgs(Str("Root"), Str("r@x.com"),
                                         Str("pw"), Bool(TRUE)), Epoch - 2)
      plain == UserCreate(JsonList(admin.list),
                          UserArgs(Str("Ana"), Str("a@x.com"), Str("pw"),
                                   Undef), Epoch - 1)
  IN Document(JsonList(plain.list))

Idle == [r \in Reqs |-> IdleReq]

(***************************************************************************)
(* Spec: the product routes, one request at a time                         *)
(***************************************************************************)
PostBodies ==
  {ProductBody(Str("Pen"), Str("Blue pen"), Num(2), Str("office"), Undef),
   ProductBody(Str("Ink"), Str("Blue pen"), Num(0), Str("art"), Num(5)),
   ProductBody(Undef, Str("Blue pen"), Num(2), Str("office"), Num(5))}

PutBodies ==
  {NoBody,
   [NoBody EXCEPT !.stock = Num(0)],
   [NoBody EXCEPT !.name = Str("")]}

RouteHeaders == {<<>>, Bearer(AdminId), Bearer(PlainId)}

RouteInputs ==
  {Input("POST /api/products", h, "", "", b) :
     h \in RouteHeaders, b \in PostBodies}
  \cup {Input("PUT /api/products/:id", h, i, "", b) :
          h \in RouteHeaders, i \in ParamIds, b \in PutBodies}
  \cup {Input("DELETE /api/products/:id", h, i, "", NoBody) :
          h \in RouteHeaders, i \in ParamIds}
  \cup {Input("GET /api/products/:id", <<>>, i, "", NoBody) : i \in ParamIds}
  \cup {Input("GET /api/products/category/:category", <<>>, "", c, NoBody) :
          c \in {"office", "art"}}
  \cup {Input("GET /api/products", <<>>, "", "", NoBody)}

Init ==
  /\ usersFile = SeedUsers
  /\ productsFile \in {Absent, Corrupt, Document(<<>>)}
  /\ clock = Epoch
  /\ req = Idle

Next ==
  \/ \E i \in RouteInputs : Arrive(1, i)
  \/ VerifyToken(1)
  \/ ReadUsersFile(1)
  \/ Handler(1)
  \/ ReadProductsFile(1)
  \/ InitProductsFile(1)
  \/ WriteProductsFile(1)
  \/ Finish(1)
  \/ Tick

Spec == Init /\ [][Next]_vars

(***************************************************************************)
(* SpecAuth: requests on the admin-only routes in slot 1, while signups    *)
(* (User.create, called by the auth routes) run in slot 2                  *)
(***************************************************************************)
AuthHeaders == BadHeaders \cup {Bearer(u) : u \in ParamIds}

AuthInputs ==
  {Input(rt, h, NumToString(Epoch), "", NoBody) :
     rt \in {"PUT /api/products/:id", "DELETE /api/products/:id"},
     h \in AuthHeaders}
  \cup {Input("GET /api/users/:id", h, i, "", NoBody) :
          h \in AuthHeaders, i \in ParamIds}
  \cup {Input(rt, h, "", "", NoBody) :
          rt \in {"GET /api/users", "POST /api/products"}, h \in AuthHeaders}

SignupInputs ==
  {Input("User.create", <<>>, "", "",
         UserArgs(Str("Ana"), Str("a@x.com"), Str("pw"), a)) :
     a \in {Undef, Bool(FALSE), Bool(TRUE)}}

InitAuth ==
  /\ usersFile \in {Absent, Corrupt, Document(<<>>)}
  /\ productsFile \in {Absent, Document(<<>>)}
  /\ clock = Epoch
  /\ req = Idle

NextAuth ==
  \/ \E i \in AuthInputs : Arrive(1, i)
  \/ \E i \in SignupInputs : Arrive(2, i)
  \/ VerifyToken(1)
  \/ \E r \in Reqs : Handler(r)
  \/ \E r \in Reqs : ReadUsersFile(r)
  \/ \E r \in Reqs : InitUsersFile(r)
  \/ WriteUsersFile(2)
  \/ ReadProductsFile(1)
  \/ InitProductsFile(1)
  \/ \E r \in Reqs : Finish(r)
  \/ Tick

SpecAuth == InitAuth /\ [][NextAuth]_vars

(***************************************************************************)
(* Properties of the auth middleware and the users routes (SpecAuth)       *)
(***************************************************************************)
\* the users document that requireAdmin of request r gets from the read
\* that is about to complete: the empty document after ENOENT
UsersAsRead(r) ==
  IF req[r].pc = "initUsers" THEN <<>> ELSE usersFile.list

\* requireAdmin of request r is about to get its answer from readUsersFile
AdminCheckReturns(r) ==
  /\ req[r].stage = "requireAdmin"
  /\ \/ req[r].pc = "initUsers"
     \/ req[r].pc = "readUsers" /\ usersFile.st = "json"
  /\ req'[r] # req[r]

\* the first record of `users` with the id is an admin
AdminIn(users, id) ==
  \E i \in 1..Len(users) :
    /\ users[i].id = id
    /\ \A j \in 1..(i - 1) : users[j].id # id
    /\ users[i].isAdmin = Bool(TRUE)

AdminCheckStep(r) ==
  AdminCheckReturns(r) =>
    IF AdminIn(UsersAsRead(r), req[r].userId)
    THEN /\ req'[r].nextA = req[r].nextA + 1
         /\ req'[r].pc = "handler"
         /\ req'[r].res = NoRes
    ELSE /\ req'[r].nextA = req[r].nextA
         /\ req'[r].pc = "done"
         /\ req'[r].res.status = 403

AdminGate(r) ==
  LET q == req[r]
  IN q.route \in AdminRoutes =>
       /\ q.nextA <= 1
       /\ q.ran => q.nextA = 1 /\ AdminIn(q.data, q.userId)
       /\ q.res.status = 403 => ~q.ran /\ q.nextA = 0
       /\ q.nextA = 1 => q.nextV = 1

\* C1: requireAdmin answers 403 without calling next when the users document
\* read in this request has no record with the request's userId or that
\* record is not an admin, and calls next exactly once otherwise; the handler
\* of an admin-only route runs only after that one call.
C1_RequireAdmin ==
  /\ [][\A r \in Reqs : AdminCheckStep(r)]_vars
  /\ [](\A r \in Reqs : AdminGate(r))

\* a request denied although a record with its userId is stored
C1_Witness ==
  /\ req[1].route = "POST /api/products"
  /\ req[1].res.status = 403
  /\ req[1].user # Undef
  /\ ~req[1].ran

\* the header of request r carries a token that jwt.verify accepts
ValidHeader(h) ==
  /\ Len(h) >= 2
  /\ \E u \in TokenUserIds : h[2] = "jwt." \o u

PastVerifyToken(q) ==
  q.route \in AdminRoutes /\ q.pc # "verifyToken"

\* C2: verifyToken answers 401 and never calls next when the header is
\* missing, has no token after the scheme or has a token whose signature is
\* rejected; otherwise it sets userId to the id in the token and calls next
\* exactly once; no request has both a 401 and a call of next.
C2_VerifyToken ==
  \A r \in Reqs :
    LET q == req[r]
    IN /\ ~(q.res.status = 401 /\ q.nextV > 0)
       /\ (PastVerifyToken(q) /\ ~ValidHeader(q.header)) =>
            /\ q.res.status = 401
            /\ q.nextV = 0
            /\ q.pc = "done"
            /\ q.userId = Undef
       /\ (PastVerifyToken(q) /\ ValidHeader(q.header)) =>
            /\ q.res.status # 401
            /\ q.nextV = 1
            /\ q.header[2] = "jwt." \o q.userId.s

\* a forged token has been answered
C2_Witness ==
  /\ req[1].header = <<"Bearer", "forged">>
  /\ req[1].res.status = 401
  /\ req[1].res.message = "Invalid token"

PublicFields == {"id", "name", "email", "isAdmin", "createdAt"}

\* C7: the answer of GET /api/users has one entry per record of the users
\* document read, the answer of GET /api/users/:id has one entry, and every
\* entry carries exactly id, name, email, isAdmin and createdAt of its
\* record: no password.
C7_NoPassword ==
  \A r \in Reqs :
    LET q == req[r]
    IN /\ (q.route = "GET /api/users" /\ q.res.status = 200) =>
            /\ Len(q.res.payload) = Len(q.data)
            /\ \A i \in 1..Len(q.data) :
                 /\ DOMAIN q.res.payload[i] = PublicFields
                 /\ \A f \in PublicFields : q.res.payload[i][f] = q.data[i][f]
       /\ (q.route = "GET /api/users/:id" /\ q.res.status = 200) =>
            /\ Len(q.res.payload) = 1
            /\ DOMAIN q.res.payload[1] = PublicFields
            /\ q.res.payload[1].id = Str(q.id)

\* the list of two stored users has been answered
C7_Witness ==
  /\ req[1].route = "GET /api/users"
  /\ req[1].res.status = 200
  /\ Len(req[1].res.payload) = 2

(***************************************************************************)
(* SpecRace: two calls of Product.create, with distinct names, made        *)
(* together against a products store that holds no record                  *)
(***************************************************************************)
\* the call Product.create(...) made from outside the routes
CreateCall(body) ==
  [IdleReq EXCEPT !.route = "Product.create", !.pc = "handler",
                  !.stage = "handler", !.body = body]

RaceBodies(name) ==
  {ProductBody(Str(name), Str("Blue pen"), Num(2), Str(c), k) :
     c \in {"office", "art"}, k \in {Undef, Num(5)}}

InitRace ==
  /\ usersFile = SeedUsers
  /\ productsFile \in {Absent, Document(<<>>)}
  /\ clock = Epoch
  /\ \E a \in RaceBodies("Pen"), b \in RaceBodies("Ink") :
       req = [r \in Reqs |-> IF r = 1 THEN CreateCall(a) ELSE CreateCall(b)]

NextRace ==
  \/ \E r \in Reqs : Handler(r)
  \/ \E r \in Reqs : ReadProductsFile(r)
  \/ \E r \in Reqs : InitProductsFile(r)
  \/ \E r \in Reqs : WriteProductsFile(r)
  \/ Tick

SpecRace == InitRace /\ [][NextRace]_vars

\* getAll, called now, returns a record with the name that call r created
Retrievable(r) ==
  /\ productsFile.st = "json"
  /\ \E i \in 1..Len(ProductGetAll(productsFile.list)) :
       ProductGetAll(productsFile.list)[i].name = req[r].body.name

\* C3: once both concurrent Product.create calls have completed, getAll
\* returns both created records.
C3_NoLostCreate ==
  (\A r \in Reqs : req[r].pc = "done") => \A r \in Reqs : Retrievable(r)

(***************************************************************************)
(* SpecRepo: one call of a function of the User or Product model on a      *)
(* store that earlier calls of create have filled                          *)
(***************************************************************************)
\* the sequences over S of length at most n
RECURSIVE SeqsUpTo(_, _)
SeqsUpTo(S, n) ==
  IF n = 0 THEN {<<>>}
  ELSE LET shorter == SeqsUpTo(S, n - 1)
       IN shorter \cup {Append(q, x) : q \in shorter, x \in S}

\* records are appended in the order of their creation: the readings of the
\* clock (the last component of a seed) never decrease along the array
InCreationOrder(seeds) ==
  \A i \in 1..Len(seeds) : \A j \in i..Len(seeds) : seeds[i][3] <= seeds[j][3]

SeedReadings == (Epoch - 1)..Epoch

SeedProduct(k) ==
  JsonRecord(ProductCreate(<<>>,
    ProductBody(Str(k[1]), Str("Blue pen"), Num(2), Str(k[2]), Num(5)),
    k[3]).result)

SeedProductFiles ==
  {Absent} \cup
  {Document([i \in 1..Len(x) |-> SeedProduct(x[i])]) :
     x \in {y \in SeqsUpTo({"Pen", "Ink"} \X {"office", "art"} \X SeedReadings,
                           MaxProducts) : InCreationOrder(y)}}

SeedUser(k) ==
  JsonRecord(UserCreate(<<>>,
    UserArgs(Str("Ana"), Str(k[1]), Str("pw"), k[2]), k[3]).result)

SeedUserFiles ==
  {Absent} \cup
  {Document([i \in 1..Len(x) |-> SeedUser(x[i])]) :
     x \in {y \in SeqsUpTo({"a@x.com", "b@x.com"} \X {Undef, Bool(TRUE)}
                             \X SeedReadings, MaxUsers) : InCreationOrder(y)}}

\* the ids a caller asks for: of the seeds, of the next reading, of no record
CallIds == {NumToString(c) : c \in (Epoch - 1)..(Epoch + 1)}

Patches ==
  {NoBody,
   ProductBody(Str("Cap"), Str("Red cap"), Num(3), Str("art"), Num(7)),
   ProductBody(Str(""), Str(""), Num(0), Str(""), Num(0))}
  \cup {[NoBody EXCEPT !.name = v] : v \in {Str(""), Str("Cap")}}
  \cup {[NoBody EXCEPT !.description = v] : v \in {Str(""), Str("Red cap")}}
  \cup {[NoBody EXCEPT !.price = v] : v \in {Num(0), Num(3)}}
  \cup {[NoBody EXCEPT !.category = v] : v \in {Str(""), Str("art")}}
  \cup {[NoBody EXCEPT !.stock = v] : v \in {Num(0), Num(7)}}

RepoInputs ==
  {Input("Product.create", <<>>, "", "",
         ProductBody(Str("Nib"), Str("Steel nib"), Num(2), Str(c), k)) :
     c \in {"office", "art"}, k \in {Undef, Num(5)}}
  \cup {Input("Product.update", <<>>, i, "", b) : i \in CallIds, b \in Patches}
  \cup {Input(f, <<>>, i, "", NoBody) :
          f \in {"Product.delete", "Product.findById", "User.findById"},
          i \in CallIds}
  \cup {Input("Product.findByCategory", <<>>, "", c, NoBody) :
          c \in {"office", "art"}}
  \cup {Input(f, <<>>, "", "", NoBody) : f \in {"Product.getAll", "User.getAll"}}
  \cup {Input(f, <<>>, "", "", UserArgs(Str("Bea"), Str(e), Str("pw"), a)) :
          f \in {"User.create", "User.findByEmail"},
          e \in {"a@x.com", "c@x.com"}, a \in {Undef, Bool(TRUE)}}

InitRepo ==
  /\ \/ usersFile = Document(<<>>) /\ productsFile \in SeedProductFiles
     \/ usersFile \in SeedUserFiles /\ productsFile = Document(<<>>)
  /\ clock = Epoch
  /\ req = Idle

NextRepo ==
  \/ \E i \in RepoInputs : Arrive(1, i)
  \/ Handler(1)
  \/ ReadUsersFile(1)
  \/ InitUsersFile(1)
  \/ WriteUsersFile(1)
  \/ ReadProductsFile(1)
  \/ InitProductsFile(1)
  \/ WriteProductsFile(1)
  \/ Tick

SpecRepo == InitRepo /\ [][NextRepo]_vars

\* the call in slot 1 has returned without an exception
Returned(route) ==
  /\ req[1].route = route
  /\ req[1].pc = "done"
  /\ req[1].res.error = ""

\* C4: after create has returned r, findById(r.id) returns a record whose
\* fields are r's (as JSON stores them), and for a user so does
\* findByEmail(r.email).
C4_RoundTrip ==
  /\ Returned("Product.create") =>
       ProductFindById(productsFile.list, req[1].result.id)
         = JsonRecord(req[1].result)
  /\ Returned("User.create") =>
       /\ UserFindById(usersFile.list, req[1].result.id)
            = JsonRecord(req[1].result)
       /\ UserFindByEmail(usersFile.list, req[1].result.email)
            = JsonRecord(req[1].result)

\* the position of the record that has the id: the first one in the array
Target(list, id) ==
  CHOOSE i \in 1..Len(list) :
    list[i].id = id /\ \A j \in 1..(i - 1) : list[j].id # id

\* writeProductsFile of the call `route` in slot 1 completes in this step
WriteOf(route) ==
  /\ req[1].route = route
  /\ req[1].pc = "writeProducts"
  /\ req'[1].pc = "done"

UpdateKeepsAndZeroes ==
  WriteOf("Product.update") =>
    LET old == productsFile.list
        new == productsFile'.list
        a == req[1].args
        k == Target(old, Str(req[1].id))
    IN /\ Len(new) = Len(old)
       /\ \A i \in 1..Len(old) : i # k => new[i] = old[i]
       /\ req'[1].result = new[k]
       /\ a = NoBody => new = old /\ req'[1].result = old[k]
       /\ a.price = Num(0) => new[k].price = Num(0)
       /\ a.stock = Num(0) => new[k].stock = Num(0)

\* C5: Product.update with every field absent returns the record and leaves
\* the store as they were; with price 0 or stock 0 provided it stores 0.
C5_UpdateAbsentAndZero == [][UpdateKeepsAndZeroes]_vars

\* an update has set the stock of a record from 5 to 0
C5_Witness ==
  /\ Returned("Product.update")
  /\ req[1].args.stock = Num(0)
  /\ req[1].args.price = Undef
  /\ req[1].result.stock = Num(0)
  /\ \E i \in 1..Len(productsFile.list) :
       productsFile.list[i] = req[1].result

\* `new` is `old` without the records that have the id, in the same order
OthersKept(old, new, id) ==
  \E f \in [1..Len(new) -> 1..Len(old)] :
    /\ \A i \in 1..Len(new) : new[i] = old[f[i]] /\ new[i].id # id
    /\ \A i \in 1..Len(new) : \A j \in 1..Len(new) : i < j => f[i] < f[j]
    /\ \A k \in 1..Len(old) :
         old[k].id # id => \E i \in 1..Len(new) : f[i] = k

DeleteRemovesOnlyId ==
  WriteOf("Product.delete") =>
    LET old == productsFile.list
        new == productsFile'.list
        id == Str(req[1].id)
    IN /\ ProductFindById(new, id) = Undef
       /\ OthersKept(old, new, id)
       /\ (\A k \in 1..Len(old) : old[k].id # id) => new = old
       /\ req'[1].res.error = ""

\* C6: after Product.delete(id), findById(id) finds no record and every
\* record with another id is stored unchanged in the same relative order;
\* a delete of an id no record has raises no error and changes no record.
C6_Delete == [][DeleteRemovesOnlyId]_vars

\* a delete has returned and left two records, neither with the id
C6_Witness ==
  /\ Returned("Product.delete")
  /\ req[1].id = NumToString(Epoch)
  /\ Len(productsFile.list) = 2
  /\ \A i \in 1..2 : productsFile.list[i].id = Str(NumToString(Epoch - 1))
  /\ productsFile.list[1] # productsFile.list[2]

PatchFields == {"name", "description", "price", "category", "stock"}

UpdateIsMergePatch ==
  WriteOf("Product.update") =>
    LET old == productsFile.list
        new == productsFile'.list
        a == req[1].args
        k == Target(old, Str(req[1].id))
    IN \A f \in PatchFields :
         new[k][f] = IF a[f] # Undef THEN a[f] ELSE old[k][f]

\* C10: for each of name, description, price, category and stock, the value
\* stored by Product.update is the provided one whenever a value other than
\* undefined was provided (the empty string included) and the previous one
\* when the field is absent.
C10_MergePatch == [][UpdateIsMergePatch]_vars

(***************************************************************************)
(* Properties of the product routes, one request at a time (Spec)          *)
(***************************************************************************)
\* `found` is the records of `stored` whose category is c, in stored order
ExactlyCategory(stored, found, c) ==
  \E f \in [1..Len(found) -> 1..Len(stored)] :
    /\ \A i \in 1..Len(found) : found[i] = stored[f[i]] /\ found[i].category = c
    /\ \A i \in 1..Len(found) : \A j \in 1..Len(found) : i < j => f[i] < f[j]
    /\ \A k \in 1..Len(stored) :
         stored[k].category = c => \E i \in 1..Len(found) : f[i] = k

\* C8: an accepted POST /api/products whose body has no stock stores a
\* record with stock 0, and GET /api/products/category/:category answers
\* exactly the stored records of that category, in insertion order.
C8_StockAndCategory ==
  LET q == req[1]
      stored == productsFile.list
  IN /\ (/\ q.route = "POST /api/products"
         /\ q.res.status = 201
         /\ q.body.stock = Undef) =>
            /\ productsFile.st = "json"
            /\ Len(stored) >= 1
            /\ stored[Len(stored)].stock = Num(0)
            /\ stored[Len(stored)].name = q.body.name
            /\ q.res.payload = <<stored[Len(stored)]>>
     /\ (/\ q.route = "GET /api/products/category/:category"
         /\ q.res.status = 200) =>
            /\ productsFile.st = "json"
            /\ ExactlyCategory(stored, q.res.payload, Str(q.category))

\* the one office product, created without stock, answered out of two stored
C8_Witness ==
  /\ req[1].route = "GET /api/products/category/:category"
  /\ req[1].category = "office"
  /\ req[1].res.status = 200
  /\ Len(req[1].res.payload) = 1
  /\ req[1].res.payload[1].stock = Num(0)
  /\ Len(productsFile.list) = 2

(***************************************************************************)
(* SpecConc: two admin requests on the product routes at the same time     *)
(***************************************************************************)
ConcInputs ==
  {Input("POST /api/products", Bearer(AdminId), "", "",
         ProductBody(Str("Pen"), Str("Blue pen"), Num(2), Str("office"), Undef))}
  \cup {Input("PUT /api/products/:id", Bearer(AdminId), i, "",
              [NoBody EXCEPT !.stock = Num(0)]) : i \in ParamIds}
  \cup {Input("DELETE /api/products/:id", Bearer(AdminId), i, "", NoBody) :
          i \in ParamIds}

InitConc ==
  /\ usersFile = SeedUsers
  /\ productsFile \in {Absent, Corrupt, Document(<<>>)}
  /\ clock = Epoch
  /\ req = Idle

NextConc ==
  \/ \E r \in Reqs : \E i \in ConcInputs : Arrive(r, i)
  \/ \E r \in Reqs : VerifyToken(r)
  \/ \E r \in Reqs : ReadUsersFile(r)
  \/ \E r \in Reqs : Handler(r)
  \/ \E r \in Reqs : ReadProductsFile(r)
  \/ \E r \in Reqs : InitProductsFile(r)
  \/ \E r \in Reqs : WriteProductsFile(r)
  \/ \E r \in Reqs : Finish(r)
  \/ Tick

SpecConc == InitConc /\ [][NextConc]_vars

\* request r gets its answer in this step, from a PUT or DELETE that has
\* passed the gate
Answered(r) ==
  /\ req[r].route \in {"PUT /api/products/:id", "DELETE /api/products/:id"}
  /\ req[r].ran
  /\ req[r].pc # "done"
  /\ req'[r].pc = "done"

NotFoundIs404(r) ==
  Answered(r) =>
    /\ (/\ productsFile.st = "json"
        /\ \A i \in 1..Len(productsFile.list) :
             productsFile.list[i].id # Str(req[r].id))
         => /\ req'[r].res.status = 404
            /\ req'[r].res.message = "Product not found"
    /\ req'[r].res.status = 500 => req'[r].res.error = ParseError

\* C9: PUT and DELETE /api/products/:id answer 404 'Product not found'
\* whenever no record with the id is stored when the operation is applied,
\* under every interleaving, and answer 500 only for a storage failure.
C9_NotFound == [][\A r \in Reqs : NotFoundIs404(r)]_vars

(***************************************************************************)
(* Properties of the stored records                                        *)
(***************************************************************************)
UniqueIds(list) ==
  \A i \in 1..Len(list) : \A j \in 1..Len(list) :
    list[i].id = list[j].id => i = j

\* C11: no two stored records of a collection have the same id, also when
\* two creates happen at the same reading of the clock.
C11_UniqueIds ==
  /\ UniqueIds(productsFile.list)
  /\ UniqueIds(usersFile.list)

(***************************************************************************)
(* SpecBodies: the admin's POST and PUT /api/products, one request at a    *)
(* time, with bodies whose price and stock are of any type and sign        *)
(***************************************************************************)
BodyInputs ==
  {Input("POST /api/products", Bearer(AdminId), "", "", b) :
     b \in {ProductBody(Str("Pen"), Str("Blue pen"), Num(2), Str("office"),
                        Undef),
            ProductBody(Str("Pen"), Str("Blue pen"), Str("free"),
                        Str("office"), Num(-1))}}
  \cup {Input("PUT /api/products/:id", Bearer(AdminId), i, "", b) :
          i \in ParamIds,
          b \in {[NoBody EXCEPT !.price = Num(-1)],
                 [NoBody EXCEPT !.stock = Str("many")]}}

InitBodies ==
  /\ usersFile = SeedUsers
  /\ productsFile \in {Absent, Document(<<>>)}
  /\ clock = Epoch
  /\ req = Idle

NextBodies ==
  \/ \E i \in BodyInputs : Arrive(1, i)
  \/ VerifyToken(1)
  \/ ReadUsersFile(1)
  \/ Handler(1)
  \/ ReadProductsFile(1)
  \/ InitProductsFile(1)
  \/ WriteProductsFile(1)
  \/ Finish(1)
  \/ Tick

SpecBodies == InitBodies /\ [][NextBodies]_vars

\* a number that is not negative (the numbers of the model are integers)
NonNegativeNumber(v) == v.t = "number" /\ v.n >= 0

\* C12: in every state reached through POST and PUT /api/products, every
\* stored product has a price that is a number >= 0 and a stock that is an
\* integer >= 0.
C12_PriceAndStock ==
  \A i \in 1..Len(productsFile.list) :
    /\ NonNegativeNumber(productsFile.list[i].price)
    /\ NonNegativeNumber(productsFile.list[i].stock)

(***************************************************************************)
(* SpecReads: a read-only request or call in slot 1 while a create runs in *)
(* slot 2, the files absent or empty at the start                          *)
(***************************************************************************)
ReadOnlyRoutes ==
  PublicRoutes \cup
  {"Product.findById", "Product.findByCategory", "Product.getAll",
   "User.findById", "User.findByEmail", "User.getAll"}

ReadInputs ==
  {Input(f, <<>>, i, "", NoBody) :
     f \in {"GET /api/products/:id", "Product.findById", "User.findById"},
     i \in ParamIds}
  \cup {Input(f, <<>>, "", "office", NoBody) :
          f \in {"GET /api/products/category/:category",
                 "Product.findByCategory"}}
  \cup {Input(f, <<>>, "", "", NoBody) :
          f \in {"GET /api/products", "Product.getAll", "User.getAll"}}
  \cup {Input("User.findByEmail", <<>>, "", "",
              UserArgs(Undef, Str("a@x.com"), Undef, Undef))}

WriteInputs ==
  {Input("Product.create", <<>>, "", "",
         ProductBody(Str("Pen"), Str("Blue pen"), Num(2), Str("office"),
                     Undef)),
   Input("User.create", <<>>, "", "",
         UserArgs(Str("Ana"), Str("a@x.com"), Str("pw"), Undef))}

InitReads ==
  /\ usersFile \in {Absent, Document(<<>>)}
  /\ productsFile \in {Absent, Document(<<>>)}
  /\ clock = Epoch
  /\ req = Idle

NextReads ==
  \/ \E i \in ReadInputs : Arrive(1, i)
  \/ \E i \in WriteInputs : Arrive(2, i)
  \/ \E r \in Reqs : Handler(r)
  \/ \E r \in Reqs : ReadUsersFile(r)
  \/ \E r \in Reqs : InitUsersFile(r)
  \/ WriteUsersFile(2)
  \/ \E r \in Reqs : ReadProductsFile(r)
  \/ \E r \in Reqs : InitProductsFile(r)
  \/ WriteProductsFile(2)
  \/ \E r \in Reqs : Finish(r)
  \/ Tick

SpecReads == InitReads /\ [][NextReads]_vars

\* a step of the read-only request r leaves the stored records as they are
ReadKeepsRecords(r) ==
  (req[r].route \in ReadOnlyRoutes /\ req'[r] # req[r]) =>
    /\ productsFile'.list = productsFile.list
    /\ usersFile'.list = usersFile.list

\* C13: findById, findByCategory and getAll never remove or change a stored
\* record, under every interleaving and also when the file is absent at the
\* start: the empty document written after a file-not-found never replaces
\* a document that another request has written in between.
C13_ReadsKeepRecords == [][\A r \in Reqs : ReadKeepsRecords(r)]_vars

====
